---- MODULE Spec2Model ----
(***************************************************************************)
(* Model of tzhttpd's URI router, src/HttpHandler.h: the two handler       *)
(* tables (get_handler_, post_handler_), the reader/writer lock rwlock_,    *)
(* the shared handler objects and the operations check_exist, switch,       *)
(* update (replace), register and find, run by concurrent threads.          *)
(***************************************************************************)
EXTENDS Integers, Sequences, FiniteSets, TLC

\* ------------------------------------------------------------------ bounds
NumThreads == 2      \* concurrent caller threads
MaxHandlers == 2     \* handler objects ever allocated (make_shared calls)
MaxLen == 3          \* longest argument given to pure_uri_path on its own

\* -------------------------------------------------------- program constants
RetryBudget == 10    \* int retry_count = 10;
UseCountIdle == 2    \* use_count() > 2: the table's reference plus the local copy

Threads == 1..NumThreads
Kinds == {"GET", "POST"}
NullPtr == 0         \* an empty shared_ptr
NoThread == 0

\* Return values.  The bodies of register_* and find_* are not part of the
\* header; their results follow the router contract.
RetSwitched == 0     \* do_switch_http_handler: return 0;
RetAlready == -1     \* do_switch_http_handler: return -1;
RetNotFound == -2    \* do_switch_http_handler: return -2;
RetBuiltIn == -1     \* do_update_http_handler: return -1;
RetUpdateEnd == -2   \* do_update_http_handler: ret: return -2;
RetOk == 0
RetDuplicate == -1
RetNoMatch == -2

\* ------------------------------------------------------------ strings
\* A string is a sequence of one-character strings.
IsSpace(c) == c = " "

ToLowerChar(c) == IF c = "A" THEN "a" ELSE IF c = "B" THEN "b" ELSE c

\* boost::to_lower_copy
to_lower_copy(s) == [i \in 1..Len(s) |-> ToLowerChar(s[i])]

RECURSIVE TrimLeft(_)
TrimLeft(s) == IF s # <<>> /\ IsSpace(Head(s)) THEN TrimLeft(Tail(s)) ELSE s

RECURSIVE TrimRight(_)
TrimRight(s) ==
    IF s # <<>> /\ IsSpace(s[Len(s)]) THEN TrimRight(SubSeq(s, 1, Len(s) - 1)) ELSE s

\* boost::algorithm::trim_copy
trim_copy(s) == TrimRight(TrimLeft(s))

\* while (uri[uri.size()-1] == '/' && uri.size() > 1) uri = uri.substr(0, uri.size()-1);
RECURSIVE StripSlashes(_)
StripSlashes(s) ==
    IF Len(s) > 1 /\ s[Len(s)] = "/" THEN StripSlashes(SubSeq(s, 1, Len(s) - 1)) ELSE s

\* HttpHandler::pure_uri_path
pure_uri_path(uri) == StripSlashes(trim_copy(to_lower_copy(uri)))

\* boost::regex_match of a whole uri against a pattern; "*" stands for ".*".
RECURSIVE regex_match(_, _)
regex_match(u, p) ==
    IF p = <<>> THEN u = <<>>
    ELSE IF Head(p) = "*"
         THEN \E n \in 0..Len(u) : regex_match(SubSeq(u, n + 1, Len(u)), Tail(p))
         ELSE u # <<>> /\ Head(u) = Head(p) /\ regex_match(Tail(u), Tail(p))

\* Raw arguments the callers pass: patterns to the administrative
\* operations, request paths to find, and (pattern, built_in) to register.
\* The GET table is driven with two patterns that overlap ("/a" and "/.*"),
\* one of them built in; the POST table with a single replaceable pattern.
PatternArgs(k) ==
    IF k = "GET" THEN { <<"/", "a">>, <<"/", "A", "/">>, <<"/", "*">>, <<"/", "*", "/">> }
    ELSE { <<"/", "a">>, <<"/", "A">> }
UriArgs(k) ==
    IF k = "GET" THEN { <<"/", "a">>, <<" ", "/", "A", "/">>, <<"/", "b">> }
    ELSE { <<"/", "a", "/">> }
RegisterArgs(k) ==
    IF k = "GET" THEN { << <<"/", "a">>, TRUE >>, << <<"/", "A", "/">>, TRUE >>,
                        << <<"/", "*">>, FALSE >> }
    ELSE { << <<"/", "a">>, FALSE >> }

NoCall == [op |-> "none", kind |-> "GET", uri |-> <<>>, on |-> FALSE, built_in |-> FALSE]
NoResult == [thread |-> 0, call |-> NoCall, path |-> "none", value |-> 0]

\* The calls that take the lock shared, each with uri = pure_uri_path(uri_r).
SharedCalls ==
    UNION { { [op |-> "check_exist", kind |-> k, uri |-> pure_uri_path(u),
               on |-> FALSE, built_in |-> FALSE] : u \in PatternArgs(k) }
            \cup
            { [op |-> "find", kind |-> k, uri |-> pure_uri_path(u),
               on |-> FALSE, built_in |-> FALSE] : u \in UriArgs(k) } : k \in Kinds }

\* The calls that take the lock exclusively.
ExclusiveCalls ==
    UNION { { [op |-> "switch", kind |-> k, uri |-> pure_uri_path(u),
               on |-> on, built_in |-> FALSE] : u \in PatternArgs(k), on \in BOOLEAN }
            \cup
            { [op |-> "update", kind |-> k, uri |-> pure_uri_path(u),
               on |-> FALSE, built_in |-> FALSE] : u \in PatternArgs(k) }
            \cup
            { [op |-> "register", kind |-> k, uri |-> pure_uri_path(a[1]),
               on |-> FALSE, built_in |-> a[2]] : a \in RegisterArgs(k) } : k \in Kinds }

VARIABLES
    get_handler_,      \* vector<pair<UriRegex, HttpGetHandlerObjectPtr>>
    post_handler_,     \* vector<pair<UriRegex, HttpPostHandlerObjectPtr>>
    objs,              \* the HttpHandlerObject instances allocated so far, by identity
    rwlock_,           \* boost::shared_mutex: its exclusive owner and its shared owners
    pc,                \* each thread's position
    call,              \* each thread's current call: operation, table and arguments
    p_handler_object,  \* do_update_http_handler's local shared_ptr
    retry_count,       \* do_update_http_handler's local counter
    phandler_obj,      \* the caller's shared_ptr filled in by find_http_*_handler
    result,            \* what the step just taken returned to its caller, if it was a return
    norm               \* pure_uri_path run on its own: its argument, its local uri, its position

tables == <<get_handler_, post_handler_>>
locals == <<p_handler_object, retry_count>>
router == <<get_handler_, post_handler_, objs, rwlock_, pc, call,
            p_handler_object, retry_count, phandler_obj, result>>
vars == <<get_handler_, post_handler_, objs, rwlock_, pc, call,
          p_handler_object, retry_count, phandler_obj, result, norm>>

Handlers(k) == IF k = "GET" THEN get_handler_ ELSE post_handler_

\* handlers' = v for the table of kind k, the other table untouched
SetHandlers(k, v) ==
    IF k = "GET"
    THEN get_handler_' = v /\ UNCHANGED post_handler_
    ELSE post_handler_' = v /\ UNCHANGED get_handler_

\* IndexOf with the scan started one entry late: the first entry is never
\* compared
IndexOfAfterFirst(handlers, uri) ==
    IF \E i \in DOMAIN handlers : i > 1 /\ handlers[i].first = uri
    THEN CHOOSE i \in DOMAIN handlers :
            /\ i > 1 /\ handlers[i].first = uri
            /\ \A j \in 2..(i - 1) : handlers[j].first # uri
    ELSE 0

\* the index of the first entry whose pattern text is uri, 0 when there is none
IndexOf(handlers, uri) ==
    IF \E i \in DOMAIN handlers : handlers[i].first = uri
    THEN CHOOSE i \in DOMAIN handlers :
            /\ handlers[i].first = uri
            /\ \A j \in 1..(i - 1) : handlers[j].first # uri
    ELSE 0

\* vector::erase(it)
Erase(handlers, i) == [j \in 1..(Len(handlers) - 1) |->
                          IF j < i THEN handlers[j] ELSE handlers[j + 1]]

\* the number of table entries that own object id
TableRefs(id) ==
    Cardinality({i \in DOMAIN get_handler_ : get_handler_[i].second = id})
    + Cardinality({i \in DOMAIN post_handler_ : post_handler_[i].second = id})

\* InFlight as a busy flag: concurrent callers are not told apart
InFlightFlag(id) == IF \E t \in Threads : phandler_obj[t] = id THEN 1 ELSE 0

\* the number of callers still holding the pointer find handed out
InFlight(id) == Cardinality({t \in Threads : phandler_obj[t] = id})

\* use_count as it would be if the callers' pointers were not owners
use_count_no_callers(id) ==
    IF id = NullPtr THEN 0
    ELSE TableRefs(id) + Cardinality({t \in Threads : p_handler_object[t] = id})

\* shared_ptr::use_count()
use_count(id) ==
    IF id = NullPtr THEN 0
    ELSE TableRefs(id) + InFlight(id)
         + Cardinality({t \in Threads : p_handler_object[t] = id})

\* An object whose last shared_ptr has gone is destroyed; its storage no
\* longer holds a record.
Destroyed == [built_in_ |-> FALSE, working_ |-> FALSE]

\* objs after the owner count of object id has dropped to `left`
Released(id, left) == IF left = 0 THEN [objs EXCEPT ![id] = Destroyed] ELSE objs

\* pure_uri_path is not being run on its own
NormIdle == [pc |-> "idle", uri_r |-> <<>>, uri |-> <<>>, once |-> <<>>, calls |-> 0]

Init ==
    /\ get_handler_ = <<>>
    /\ post_handler_ = <<>>
    /\ objs = <<>>
    /\ rwlock_ = [writer |-> NoThread, readers |-> {}]
    /\ pc = [t \in Threads |-> "idle"]
    /\ call = [t \in Threads |-> NoCall]
    /\ p_handler_object = [t \in Threads |-> NullPtr]
    /\ retry_count = [t \in Threads |-> 0]
    /\ phandler_obj = [t \in Threads |-> NullPtr]
    /\ result = NoResult
    /\ norm = NormIdle

\* the process has not died of a fault
Alive == \A t \in Threads : pc[t] # "fault"

\* thread t is inside a call, between taking rwlock_ and releasing it
Holds(t) == pc[t] \in {"body", "upd_poll", "upd_check", "fault"}

\* thread t is inside switch, update or register, which take rwlock_ exclusively
HoldsExclusive(t) == Holds(t) /\ call[t].op \in {"switch", "update", "register"}

\* CanLockExclusive as it would be with one lock per table: only the owners
\* working on table k keep a writer out.
CanLockExclusivePerTable(k) ==
    \A u \in Threads : Holds(u) => call[u].kind # k

\* boost::shared_mutex: a shared owner is admitted while nobody owns it
\* exclusively.  The one rwlock_ serves both tables; k is the table asked for.
CanLockShared(k) == rwlock_.writer = NoThread

\* boost::shared_mutex: the exclusive owner is admitted while nobody owns it.
CanLockExclusive(k) == rwlock_.writer = NoThread /\ rwlock_.readers = {}

\* A caller enters check_exist or find: uri = pure_uri_path(uri_r), then
\* boost::shared_lock<boost::shared_mutex> rlock(rwlock_);
lock_shared(t) ==
    /\ Alive
    /\ pc[t] = "idle"
    /\ \E c \in SharedCalls :
         /\ CanLockShared(c.kind)
         /\ call' = [call EXCEPT ![t] = c]
    /\ rwlock_' = [rwlock_ EXCEPT !.readers = @ \cup {t}]
    /\ pc' = [pc EXCEPT ![t] = "body"]
    /\ result' = NoResult
    /\ UNCHANGED <<tables, objs, locals, phandler_obj>>
    /\ UNCHANGED norm

\* A caller enters switch, update or register: uri = pure_uri_path(uri_r), then
\* boost::lock_guard<boost::shared_mutex> wlock(rwlock_);
\* Registrations stop once MaxHandlers objects have been allocated.
lock_exclusive(t) ==
    /\ Alive
    /\ pc[t] = "idle"
    /\ \E c \in ExclusiveCalls :
         /\ c.op = "register" => Len(objs) < MaxHandlers
         /\ CanLockExclusive(c.kind)
         /\ call' = [call EXCEPT ![t] = c]
    /\ rwlock_' = [rwlock_ EXCEPT !.writer = t]
    /\ pc' = [pc EXCEPT ![t] = "body"]
    /\ result' = NoResult
    /\ UNCHANGED <<tables, objs, locals, phandler_obj>>
    /\ UNCHANGED norm

\* the lock with thread t's ownership given up (the guard's destructor)
Unlocked(t) == [writer |-> IF rwlock_.writer = t THEN NoThread ELSE rwlock_.writer,
                readers |-> rwlock_.readers \ {t}]

\* return r from the branch named p: the guard releases the lock
Return(t, r, p) ==
    /\ pc' = [pc EXCEPT ![t] = "idle"]
    /\ result' = [thread |-> t, call |-> call[t], path |-> p, value |-> r]
    /\ call' = [call EXCEPT ![t] = NoCall]
    /\ rwlock_' = Unlocked(t)

\* HttpHandler::do_check_exist_http_handler
do_check_exist_http_handler(t) ==
    /\ Alive
    /\ pc[t] = "body"
    /\ call[t].op = "check_exist"
    /\ IF IndexOf(Handlers(call[t].kind), call[t].uri) # 0
       THEN Return(t, 1, "exists")
       ELSE Return(t, 0, "absent")
    /\ UNCHANGED <<tables, objs, locals, phandler_obj>>
    /\ UNCHANGED norm

\* do_switch_http_handler with the assignment to working_ lost: the change
\* of state is reported and not made
do_switch_flag_lost(t) ==
    /\ Alive
    /\ pc[t] = "body"
    /\ call[t].op = "switch"
    /\ LET i == IndexOf(Handlers(call[t].kind), call[t].uri)
           id == Handlers(call[t].kind)[i].second
       IN  IF i = 0
           THEN Return(t, RetNotFound, "not_found")
           ELSE IF objs[id].working_ = call[t].on
                THEN Return(t, RetAlready, "already")
                ELSE Return(t, RetSwitched, "switched")
    /\ UNCHANGED <<tables, objs, locals, phandler_obj>>
    /\ UNCHANGED norm

\* do_switch_http_handler without the test `working_ == on`: a repeated
\* request is carried out again and reported as a change
do_switch_no_test(t) ==
    /\ Alive
    /\ pc[t] = "body"
    /\ call[t].op = "switch"
    /\ LET i == IndexOf(Handlers(call[t].kind), call[t].uri)
           id == Handlers(call[t].kind)[i].second
       IN  IF i = 0
           THEN Return(t, RetNotFound, "not_found") /\ UNCHANGED objs
           ELSE /\ objs' = [objs EXCEPT ![id].working_ = call[t].on]
                /\ Return(t, RetSwitched, "switched")
    /\ UNCHANGED <<tables, locals, phandler_obj>>
    /\ UNCHANGED norm

\* HttpHandler::do_switch_http_handler
do_switch_http_handler(t) ==
    /\ Alive
    /\ pc[t] = "body"
    /\ call[t].op = "switch"
    /\ LET i == IndexOf(Handlers(call[t].kind), call[t].uri)
           id == Handlers(call[t].kind)[i].second
       IN  IF i = 0
           THEN Return(t, RetNotFound, "not_found") /\ UNCHANGED objs
           ELSE IF objs[id].working_ = call[t].on
                THEN Return(t, RetAlready, "already") /\ UNCHANGED objs
                ELSE /\ objs' = [objs EXCEPT ![id].working_ = call[t].on]
                     /\ Return(t, RetSwitched, "switched")
    /\ UNCHANGED <<tables, locals, phandler_obj>>
    /\ UNCHANGED norm

\* what do_switch_http_handler returns for (uri, on) when the table is
\* handlers and the records are o: the scan, the test of working_, the value
switch_ret(o, handlers, uri, on) ==
    IF IndexOf(handlers, uri) = 0 THEN RetNotFound
    ELSE IF o[handlers[IndexOf(handlers, uri)].second].working_ = on THEN RetAlready
    ELSE RetSwitched

\* the records do_switch_http_handler leaves behind: it->second->working_ = on
switch_objs(o, handlers, uri, on) ==
    IF switch_ret(o, handlers, uri, on) = RetSwitched
    THEN [o EXCEPT ![handlers[IndexOf(handlers, uri)].second].working_ = on]
    ELSE o

\* the constructor with working_ starting out false
HttpHandlerObjectOff(built_in) == [built_in_ |-> built_in, working_ |-> FALSE]

\* HttpHandlerObject::HttpHandlerObject: built_in_(built_in), working_(true)
HttpHandlerObject(built_in) == [built_in_ |-> built_in, working_ |-> TRUE]

\* HttpHandler::register_http_get_handler / register_http_post_handler
\* (declared in the header; the body follows the router contract: exclusive
\* lock, reject a duplicate pattern text, else append a new enabled record).
register_http_handler(t) ==
    /\ Alive
    /\ pc[t] = "body"
    /\ call[t].op = "register"
    /\ IF IndexOf(Handlers(call[t].kind), call[t].uri) # 0
       THEN /\ Return(t, RetDuplicate, "duplicate")
            /\ UNCHANGED <<tables, objs>>
       ELSE /\ objs' = Append(objs, HttpHandlerObject(call[t].built_in))
            /\ SetHandlers(call[t].kind,
                           Append(Handlers(call[t].kind),
                                  [first |-> call[t].uri, second |-> Len(objs) + 1]))
            /\ Return(t, RetOk, "registered")
    /\ UNCHANGED <<locals, phandler_obj>>
    /\ UNCHANGED norm

\* the index of the first enabled entry whose matcher accepts uri, 0 when none
FirstMatch(handlers, uri) ==
    LET hit(i) == regex_match(uri, handlers[i].first) /\ objs[handlers[i].second].working_
    IN  IF \E i \in DOMAIN handlers : hit(i)
        THEN CHOOSE i \in DOMAIN handlers : hit(i) /\ \A j \in 1..(i - 1) : ~hit(j)
        ELSE 0

\* HttpHandler::find_http_get_handler / find_http_post_handler (declared in
\* the header; the body follows the router contract).  On a match the
\* caller's shared_ptr is set, which is the reference the call holds while
\* it runs the handler; the shared lock is released on return.
find_http_handler(t) ==
    /\ Alive
    /\ pc[t] = "body"
    /\ call[t].op = "find"
    /\ LET i == FirstMatch(Handlers(call[t].kind), call[t].uri)
       IN  IF i = 0
           THEN /\ Return(t, RetNoMatch, "no_match")
                /\ UNCHANGED phandler_obj
           ELSE /\ phandler_obj' = [phandler_obj EXCEPT
                                       ![t] = Handlers(call[t].kind)[i].second]
                /\ result' = [thread |-> t, call |-> call[t], path |-> "found",
                              value |-> RetOk]
                /\ pc' = [pc EXCEPT ![t] = "running"]
                /\ call' = [call EXCEPT ![t] = NoCall]
                /\ rwlock_' = Unlocked(t)
    /\ UNCHANGED <<tables, objs, locals>>
    /\ UNCHANGED norm

\* The dispatched call finishes, however it ends: the caller's
\* HttpGetHandlerObjectPtr goes out of scope.  No lock is involved.
handler_return(t) ==
    /\ Alive
    /\ pc[t] = "running"
    /\ phandler_obj' = [phandler_obj EXCEPT ![t] = NullPtr]
    /\ objs' = Released(phandler_obj[t], use_count(phandler_obj[t]) - 1)
    /\ pc' = [pc EXCEPT ![t] = "idle"]
    /\ result' = NoResult
    /\ UNCHANGED <<tables, rwlock_, call, locals>>
    /\ UNCHANGED norm

\* auto it = handlers.begin();  -- the iterator of the enclosing scope.  The
\* loop declares its own `it`, so this one never moves off the first element.
OuterIt(handlers) == 1

\* built_in_check with the test lost: every record is taken as replaceable
built_in_check_skipped(id) == FALSE

\* p_handler_object->built_in_
built_in_check(id) == objs[id].built_in_

\* p_handler_object.use_count() > 2
in_use(id) == use_count(id) > UseCountIdle

\* The outcomes of p_handler_object->built_in_ on an empty pointer, which
\* the code reaches whenever the scan found no entry: the load faults and
\* the process dies inside the call with the lock held, or the load yields
\* some value, either one, and control goes on to `if (p_handler_object)`.
NullDerefOutcomes == {"fault", "read_true", "read_false"}

\* HttpHandler::do_update_http_handler, from the lock to the retry loop:
\* the scan for the pattern text and the built_in_ test.
do_update_locate(t) ==
    /\ Alive
    /\ pc[t] = "body"
    /\ call[t].op = "update"
    /\ LET handlers == Handlers(call[t].kind)
           i == IndexOf(handlers, call[t].uri)
       IN  IF i = 0
           THEN /\ \E o \in NullDerefOutcomes :
                     CASE o = "fault" ->
                            /\ pc' = [pc EXCEPT ![t] = "fault"]
                            /\ result' = NoResult
                            /\ UNCHANGED <<rwlock_, call>>
                       [] o = "read_true" -> Return(t, RetBuiltIn, "null_built_in")
                       [] o = "read_false" -> Return(t, RetUpdateEnd, "null_skipped")
                /\ UNCHANGED locals
           ELSE IF built_in_check(handlers[i].second)
                THEN /\ Return(t, RetBuiltIn, "built_in")
                     /\ UNCHANGED locals
                ELSE /\ p_handler_object' = [p_handler_object EXCEPT
                                                ![t] = handlers[i].second]
                     /\ retry_count' = [retry_count EXCEPT ![t] = RetryBudget]
                     /\ pc' = [pc EXCEPT ![t] = "upd_poll"]
                     /\ result' = NoResult
                     /\ UNCHANGED <<rwlock_, call>>
    /\ UNCHANGED <<tables, objs, phandler_obj>>
    /\ UNCHANGED norm

\* while (p_handler_object.use_count() > 2 && -- retry_count > 0) ::usleep(1000);
\* one evaluation of the loop condition, and the sleep when it holds
do_update_poll(t) ==
    /\ Alive
    /\ pc[t] = "upd_poll"
    /\ IF in_use(p_handler_object[t])
       THEN /\ retry_count' = [retry_count EXCEPT ![t] = @ - 1]
            /\ pc' = [pc EXCEPT ![t] = IF retry_count[t] - 1 > 0
                                        THEN "upd_poll" ELSE "upd_check"]
       ELSE /\ pc' = [pc EXCEPT ![t] = "upd_check"]
            /\ UNCHANGED retry_count
    /\ result' = NoResult
    /\ UNCHANGED <<tables, objs, rwlock_, call, p_handler_object, phandler_obj>>
    /\ UNCHANGED norm

\* HttpHandler::do_update_http_handler after the loop: give up while the
\* object is in use, else erase; both ways end in `ret: return -2`.
do_update_finish(t) ==
    /\ Alive
    /\ pc[t] = "upd_check"
    /\ LET handlers == Handlers(call[t].kind)
           it == OuterIt(handlers)
           gone == handlers[it].second
       IN  IF in_use(p_handler_object[t])
           THEN /\ Return(t, RetUpdateEnd, "busy")
                /\ UNCHANGED <<tables, objs>>
           ELSE /\ SetHandlers(call[t].kind, Erase(handlers, it))
                /\ objs' = Released(gone, InFlight(gone))
                /\ Return(t, RetUpdateEnd, "erased")
    /\ p_handler_object' = [p_handler_object EXCEPT ![t] = NullPtr]
    /\ retry_count' = [retry_count EXCEPT ![t] = 0]
    /\ UNCHANGED phandler_obj
    /\ UNCHANGED norm

Next ==
    \E t \in Threads :
        \/ lock_shared(t)
        \/ lock_exclusive(t)
        \/ do_check_exist_http_handler(t)
        \/ do_switch_http_handler(t)
        \/ register_http_handler(t)
        \/ find_http_handler(t)
        \/ handler_return(t)
        \/ do_update_locate(t)
        \/ do_update_poll(t)
        \/ do_update_finish(t)

Spec == Init /\ [][Next]_vars

\* ------------------------------------------- pure_uri_path on its own
\* The characters of the arguments: a letter in both cases, the slash, a blank.
Alphabet == {"a", "A", "/", " "}

\* every string of at most n characters
Strings(n) == UNION {[1..m -> Alphabet] : m \in 0..n}

\* uri[uri.size()-1] on an empty uri reads outside the string: the load
\* faults, or it yields some character, and then `uri.size() > 1` is false
\* whatever the character was and the loop is left.
EmptyReadOutcomes == {"fault", "read"}

\* pure_uri_path is called with any string of up to MaxLen characters
InitNorm ==
    /\ get_handler_ = <<>>
    /\ post_handler_ = <<>>
    /\ objs = <<>>
    /\ rwlock_ = [writer |-> NoThread, readers |-> {}]
    /\ pc = [t \in Threads |-> "idle"]
    /\ call = [t \in Threads |-> NoCall]
    /\ p_handler_object = [t \in Threads |-> NullPtr]
    /\ retry_count = [t \in Threads |-> 0]
    /\ phandler_obj = [t \in Threads |-> NullPtr]
    /\ result = NoResult
    /\ \E x \in Strings(MaxLen) :
          norm = [pc |-> "call", uri_r |-> x, uri |-> x, once |-> <<>>, calls |-> 1]

\* uri = boost::algorithm::trim_copy(boost::to_lower_copy(uri));
norm_trim_lower ==
    /\ norm.pc = "call"
    /\ norm' = [norm EXCEPT !.uri = trim_copy(to_lower_copy(norm.uri)), !.pc = "loop"]
    /\ UNCHANGED router

\* while (uri[uri.size()-1] == '/' && uri.size() > 1) uri = uri.substr(0, uri.size()-1);
\* one evaluation of the condition, and the body when it holds
norm_loop ==
    /\ norm.pc = "loop"
    /\ IF norm.uri = <<>>
       THEN \E o \in EmptyReadOutcomes :
               norm' = [norm EXCEPT !.pc = IF o = "fault" THEN "fault" ELSE "ret"]
       ELSE IF norm.uri[Len(norm.uri)] = "/" /\ Len(norm.uri) > 1
            THEN norm' = [norm EXCEPT !.uri = SubSeq(norm.uri, 1, Len(norm.uri) - 1)]
            ELSE norm' = [norm EXCEPT !.pc = "ret"]
    /\ UNCHANGED router

\* return uri;  the caller keeps the first result and passes it to
\* pure_uri_path once more
norm_return ==
    /\ norm.pc = "ret"
    /\ IF norm.calls = 1
       THEN norm' = [norm EXCEPT !.once = norm.uri, !.calls = 2, !.pc = "call"]
       ELSE norm' = [norm EXCEPT !.pc = "done"]
    /\ UNCHANGED router

NextNorm == norm_trim_lower \/ norm_loop \/ norm_return

SpecNorm == InitNorm /\ [][NextNorm]_vars

\* ------------------------------------------------------------ properties

HandlersNext(k) == IF k = "GET" THEN get_handler_' ELSE post_handler_'

\* the object the table of kind k holds for pattern text uri (NullPtr: none)
Target(k, uri) ==
    IF IndexOf(Handlers(k), uri) = 0 THEN NullPtr
    ELSE Handlers(k)[IndexOf(Handlers(k), uri)].second

\* the object find would hand out for uri in the table of kind k (NullPtr: none)
Dispatch(handlers, uri) ==
    IF FirstMatch(handlers, uri) = 0 THEN NullPtr
    ELSE handlers[FirstMatch(handlers, uri)].second

\* the retry loop never takes more than the budget: retry_count stays in range
RetryBounded == \A t \in Threads : retry_count[t] \in 0..RetryBudget

\* C1: at the step where replace removes a record from a table, no call
\* dispatched to that record is still in flight.
ClaimC1 ==
    [][\A k \in Kinds : \A i \in DOMAIN Handlers(k) :
          (\A j \in DOMAIN HandlersNext(k) : HandlersNext(k)[j] # Handlers(k)[i])
             => InFlight(Handlers(k)[i].second) = 0]_vars

\* C2: a record registered as built-in stays in its table, with the same
\* handler object, across every step of every operation.
ClaimC2 ==
    [][\A k \in Kinds : \A i \in DOMAIN Handlers(k) :
          objs[Handlers(k)[i].second].built_in_
             => /\ \E j \in DOMAIN HandlersNext(k) : HandlersNext(k)[j] = Handlers(k)[i]
                /\ objs'[Handlers(k)[i].second].built_in_]_vars

\* C3: a replace whose target exists, is replaceable and has drained returns
\* success (a non-negative value, as switch's `return 0`), and afterwards
\* the pattern is registered and a matching request is given a new handler.
ClaimC3 ==
    [][\A t \in Threads :
          (pc[t] = "upd_check" /\ ~in_use(p_handler_object[t]) /\ pc'[t] = "idle")
             => /\ result'.value >= 0
                /\ \E j \in DOMAIN HandlersNext(call[t].kind) :
                      /\ HandlersNext(call[t].kind)[j].first = call[t].uri
                      /\ HandlersNext(call[t].kind)[j].second # p_handler_object[t]]_vars

\* C4: a replace that changes the table changes only the entry of its own
\* pattern: same length, same pattern texts in the same order, every other
\* entry and every other record as before.
ClaimC4 ==
    [][\A t \in Threads :
          (call[t].op = "update" /\ tables' # tables)
             => LET h == Handlers(call[t].kind)
                    hn == HandlersNext(call[t].kind)
                IN  /\ Len(hn) = Len(h)
                    /\ \A i \in DOMAIN h :
                          /\ hn[i].first = h[i].first
                          /\ h[i].first # call[t].uri
                                => hn[i] = h[i] /\ objs'[h[i].second] = objs[h[i].second]
                    /\ \A k \in Kinds \ {call[t].kind} : HandlersNext(k) = Handlers(k)]_vars

\* C5: a replace whose target is still in use when the retry budget is spent
\* returns Busy, a value none of replace's other outcomes returns, leaves
\* the table unchanged and the old handler dispatchable.
ClaimC5 ==
    [][\A t \in Threads :
          (pc[t] = "upd_check" /\ in_use(p_handler_object[t]) /\ pc'[t] = "idle")
             => /\ tables' = tables /\ objs' = objs
                /\ result'.thread = t
                /\ result'.value \notin {RetBuiltIn, RetUpdateEnd}]_vars

\* C6: replace on a built-in record returns the Immutable value (-1) in its
\* first step after the lock, whatever the record's owner count, without
\* entering the retry loop, and leaves tables and records as they were.
TheoremC6 ==
    [][\A t \in Threads :
          (/\ pc[t] = "body" /\ call[t].op = "update"
           /\ Target(call[t].kind, call[t].uri) # NullPtr
           /\ objs[Target(call[t].kind, call[t].uri)].built_in_
           /\ pc'[t] # "body")
             => /\ pc'[t] = "idle"
                /\ result' = [thread |-> t, call |-> call[t], path |-> "built_in",
                              value |-> RetBuiltIn]
                /\ tables' = tables /\ objs' = objs
                /\ locals' = locals
                /\ \A u \in UriArgs(call[t].kind) :
                      Dispatch(HandlersNext(call[t].kind), pure_uri_path(u))
                         = Dispatch(Handlers(call[t].kind), pure_uri_path(u))]_vars

\* C6 witness: a replace has just returned Immutable for a built-in record
\* that a dispatched call still holds.
WitnessC6 ==
    /\ result.path = "built_in"
    /\ result.value = RetBuiltIn
    /\ Target(result.call.kind, result.call.uri) # NullPtr
    /\ InFlight(Target(result.call.kind, result.call.uri)) > 0

\* C7: replace for a pattern the table does not hold returns to its caller
\* with a result and leaves the tables unchanged; it never faults.
ClaimC7 ==
    [][\A t \in Threads :
          (/\ pc[t] = "body" /\ call[t].op = "update"
           /\ Target(call[t].kind, call[t].uri) = NullPtr
           /\ pc'[t] # "body")
             => /\ pc'[t] = "idle"
                /\ result'.thread = t
                /\ tables' = tables /\ objs' = objs]_vars

\* C8: every replace call is, while it owns the lock, at a step it will
\* leave: the scan, one of at most RetryBudget polls, or the final check
\* that releases the lock.  It is never stopped with the lock still owned.
ClaimC8 ==
    \A t \in Threads :
        (call[t].op = "update" /\ rwlock_.writer = t)
           => /\ pc[t] \in {"body", "upd_poll", "upd_check"}
              /\ retry_count[t] \in 0..RetryBudget

\* C9: a pattern under replacement always has a handler for dispatch to
\* find: no step takes a pattern text out of a table, and every entry a
\* reader can see points at a complete record.
ClaimC9 ==
    [][\A k \in Kinds :
          /\ \A i \in DOMAIN Handlers(k) :
                \E j \in DOMAIN HandlersNext(k) :
                   HandlersNext(k)[j].first = Handlers(k)[i].first
          /\ \A j \in DOMAIN HandlersNext(k) :
                HandlersNext(k)[j].second \in 1..Len(objs')]_vars

\* C10 as claimed: while a thread owns the lock exclusively for one table,
\* the operations on the other table can still take the lock.
ClaimC10 ==
    \A t \in Threads :
        HoldsExclusive(t)
           => \A k \in Kinds \ {call[t].kind} : CanLockShared(k) /\ CanLockExclusive(k)

\* C10 as the code has it: the two tables share the one rwlock_.  While a
\* thread owns it exclusively for either table, no other thread is inside
\* an operation on either table, and none can take the lock, shared or
\* exclusive, for either table.
TheoremC10 ==
    \A t \in Threads :
        HoldsExclusive(t)
           => /\ \A u \in Threads \ {t} : ~Holds(u)
              /\ \A k \in Kinds : ~CanLockShared(k) /\ ~CanLockExclusive(k)

\* C10 witness: a replace on the GET table is in its retry loop, having
\* slept at least once, and owns the lock; an idle thread cannot start an
\* operation on POST.
WitnessC10 ==
    \E t \in Threads, u \in Threads :
        /\ t # u
        /\ pc[t] = "upd_poll" /\ call[t].kind = "GET"
        /\ retry_count[t] < RetryBudget
        /\ pc[u] = "idle"
        /\ ~CanLockShared("POST") /\ ~CanLockExclusive("POST")

\* the entries of handlers that are enabled and whose matcher accepts uri
Matching(handlers, uri) ==
    {i \in DOMAIN handlers :
        regex_match(uri, handlers[i].first) /\ objs[handlers[i].second].working_}

\* C11: a dispatch returns, among the enabled entries matching the uri, the
\* one registered earliest (objects are allocated in registration order),
\* and what dispatch would return for a uri is the same before and after a
\* registration, and before and after a replace of some other entry.
ClaimC11 ==
    [][\A t \in Threads : \A k \in Kinds : \A u \in UriArgs(k) :
          k = call[t].kind
             => /\ (call[t].op = "find" /\ call[t].uri = pure_uri_path(u)
                        /\ pc[t] = "body" /\ pc'[t] = "running")
                      => /\ \E i \in Matching(Handlers(k), call[t].uri) :
                               Handlers(k)[i].second = phandler_obj'[t]
                         /\ \A i \in Matching(Handlers(k), call[t].uri) :
                               phandler_obj'[t] <= Handlers(k)[i].second
                /\ (call[t].op = "register" /\ pc[t] = "body"
                        /\ Dispatch(Handlers(k), pure_uri_path(u)) # NullPtr)
                      => Dispatch(Handlers(k), pure_uri_path(u))'
                            = Dispatch(Handlers(k), pure_uri_path(u))
                /\ (call[t].op = "update" /\ pc'[t] = "idle"
                        /\ Dispatch(Handlers(k), pure_uri_path(u)) # Target(k, call[t].uri))
                      => Dispatch(Handlers(k), pure_uri_path(u))'
                            = Dispatch(Handlers(k), pure_uri_path(u))]_vars

\* C12: a dispatch hands out an enabled record only, the first enabled one
\* that matches, and reports no match only when no matching entry is
\* enabled; once set_enabled(p, false) has returned Ok no uri dispatches to
\* p's record, and a record in a table goes from disabled to enabled only
\* by a set_enabled(p, true) that returns Ok.
TheoremC12 ==
    [][\A t \in Threads : \A k \in Kinds :
          k = call[t].kind /\ pc[t] = "body"
             => /\ (call[t].op = "find" /\ pc'[t] = "running")
                      => /\ objs[phandler_obj'[t]].working_
                         /\ \E i \in DOMAIN Handlers(k) :
                               /\ Handlers(k)[i].second = phandler_obj'[t]
                               /\ regex_match(call[t].uri, Handlers(k)[i].first)
                               /\ \A j \in 1..(i - 1) :
                                     regex_match(call[t].uri, Handlers(k)[j].first)
                                        => ~objs[Handlers(k)[j].second].working_
                /\ (call[t].op = "find" /\ pc'[t] = "idle")
                      => /\ result'.value = RetNoMatch
                         /\ \A i \in DOMAIN Handlers(k) :
                               regex_match(call[t].uri, Handlers(k)[i].first)
                                  => ~objs[Handlers(k)[i].second].working_
                /\ (call[t].op = "switch" /\ ~call[t].on
                        /\ result'.thread = t /\ result'.value = RetSwitched)
                      => /\ ~objs'[Target(k, call[t].uri)].working_
                         /\ \A u \in UriArgs(k) :
                               Dispatch(Handlers(k), pure_uri_path(u))' # Target(k, call[t].uri)
                /\ \A i \in DOMAIN Handlers(k) :
                      (~objs[Handlers(k)[i].second].working_
                          /\ objs'[Handlers(k)[i].second].working_)
                         => /\ call[t].op = "switch" /\ call[t].on
                            /\ call[t].uri = Handlers(k)[i].first
                            /\ result'.thread = t /\ result'.value = RetSwitched]_vars

\* C12 witness: a dispatch has just returned a record that stands later in
\* the table than a disabled entry matching the same uri.
WitnessC12 ==
    /\ result.path = "found"
    /\ \E i \in DOMAIN Handlers(result.call.kind), j \in DOMAIN Handlers(result.call.kind) :
          /\ i < j
          /\ regex_match(result.call.uri, Handlers(result.call.kind)[i].first)
          /\ ~objs[Handlers(result.call.kind)[i].second].working_
          /\ Handlers(result.call.kind)[j].second = phandler_obj[result.thread]

\* C13: set_enabled(pattern, on) returns NotFound (-2) when no entry has the
\* normalized pattern text, AlreadyInState (-1) when the entry's flag equals
\* on, and Ok (0) otherwise, three different values; state changes in the
\* Ok case only, and then only the working_ flag of that one record: the
\* tables, every other record, the owners of every record and the other
\* threads' calls are as before.
TheoremC13 ==
    [][\A t \in Threads : \A k \in Kinds :
          (k = call[t].kind /\ call[t].op = "switch" /\ pc[t] = "body" /\ pc'[t] # "body")
             => LET id == Target(k, call[t].uri)
                    ret == IF id = NullPtr THEN RetNotFound
                           ELSE IF objs[id].working_ = call[t].on THEN RetAlready
                           ELSE RetSwitched
                IN  /\ Cardinality({RetNotFound, RetAlready, RetSwitched}) = 3
                    /\ pc'[t] = "idle"
                    /\ result'.thread = t /\ result'.call = call[t]
                    /\ result'.value = ret
                    /\ tables' = tables /\ locals' = locals /\ phandler_obj' = phandler_obj
                    /\ \A o \in DOMAIN objs : use_count(o)' = use_count(o)
                    /\ \A u \in Threads \ {t} : pc'[u] = pc[u] /\ call'[u] = call[u]
                    /\ IF ret = RetSwitched
                       THEN objs' = [objs EXCEPT ![id].working_ = call[t].on]
                       ELSE objs' = objs]_vars

\* C13 witness: a set_enabled has just returned Ok for a record that a
\* dispatched call holds, in a table with another entry.
WitnessC13 ==
    /\ result.call.op = "switch"
    /\ result.value = RetSwitched
    /\ Len(Handlers(result.call.kind)) > 1
    /\ InFlight(Target(result.call.kind, result.call.uri)) > 0

\* C14 as claimed: for every registered pattern p, in whatever state the
\* record is, set_enabled(p, true) returns Ok and set_enabled(p, true) again
\* returns AlreadyInState.
ClaimC14 ==
    \A k \in Kinds : \A p \in PatternArgs(k) :
        Target(k, pure_uri_path(p)) # NullPtr
           => /\ switch_ret(objs, Handlers(k), pure_uri_path(p), TRUE) = RetSwitched
              /\ switch_ret(switch_objs(objs, Handlers(k), pure_uri_path(p), TRUE),
                            Handlers(k), pure_uri_path(p), TRUE) = RetAlready

\* C14 as the code has it: the first of two set_enabled(p, true) calls
\* returns Ok only when p's record is disabled; when it is enabled, which
\* is how the constructor leaves every newly registered record, the first
\* call returns AlreadyInState too.  After either call, and after a
\* registration, a further set_enabled(p, true) would return
\* AlreadyInState.  Every set_enabled step returns and writes what
\* switch_ret and switch_objs say.
TheoremC14 ==
    [][\A t \in Threads :
          (pc[t] = "body" /\ pc'[t] = "idle" /\ call[t].op \in {"register", "switch"})
             => \A k \in Kinds : \A p \in PatternArgs(k) :
                   (k = call[t].kind /\ call[t].uri = pure_uri_path(p))
                      => /\ (call[t].op = "register" /\ result'.value = RetOk)
                               => /\ switch_ret(objs, Handlers(k), pure_uri_path(p), TRUE)'
                                        = RetAlready
                                  /\ switch_ret(switch_objs(objs, Handlers(k),
                                                            pure_uri_path(p), TRUE),
                                                Handlers(k), pure_uri_path(p), TRUE)'
                                        = RetAlready
                         /\ call[t].op = "switch"
                               => /\ result'.value
                                        = switch_ret(objs, Handlers(k), call[t].uri, call[t].on)
                                  /\ objs' = switch_objs(objs, Handlers(k), call[t].uri,
                                                         call[t].on)
                         /\ (call[t].op = "switch" /\ call[t].on
                                /\ Target(k, call[t].uri) # NullPtr)
                               => /\ result'.value
                                        = IF objs[Target(k, call[t].uri)].working_
                                          THEN RetAlready ELSE RetSwitched
                                  /\ switch_ret(objs, Handlers(k), pure_uri_path(p), TRUE)'
                                        = RetAlready]_vars

\* C14 witness: set_enabled(p, true) has just returned Ok for a disabled
\* record, and a second set_enabled(p, true) would return AlreadyInState.
WitnessC14 ==
    /\ result.call.op = "switch" /\ result.call.on
    /\ result.value = RetSwitched
    /\ switch_ret(objs, Handlers(result.call.kind), result.call.uri, TRUE) = RetAlready

\* no two entries of one table carry the same pattern text
UniquePatterns(handlers) ==
    \A i \in DOMAIN handlers : \A j \in DOMAIN handlers :
        handlers[i].first = handlers[j].first => i = j

\* C15: in every reachable state the pattern texts within each table are
\* pairwise distinct; a register whose normalized pattern text is already
\* in the table returns DuplicatePattern and leaves tables and records
\* unchanged, and a register that returns Ok has added one entry with a text
\* the table did not hold.
TheoremC15 ==
    [][/\ \A k \in Kinds : UniquePatterns(Handlers(k)) /\ UniquePatterns(Handlers(k))'
       /\ \A t \in Threads : \A k \in Kinds :
             (k = call[t].kind /\ call[t].op = "register" /\ pc[t] = "body" /\ pc'[t] # "body")
                => /\ result'.thread = t
                   /\ IF \E i \in DOMAIN Handlers(k) : Handlers(k)[i].first = call[t].uri
                      THEN /\ result'.value = RetDuplicate
                           /\ tables' = tables /\ objs' = objs
                      ELSE /\ result'.value = RetOk
                           /\ Len(Handlers(k))' = Len(Handlers(k)) + 1
                           /\ SubSeq(Handlers(k)', 1, Len(Handlers(k))) = Handlers(k)
                           /\ Handlers(k)'[Len(Handlers(k)) + 1].first = call[t].uri]_vars

\* C15 witness: a register has just been refused as a duplicate of an entry
\* whose record a dispatched call holds.
WitnessC15 ==
    /\ result.path = "duplicate"
    /\ result.value = RetDuplicate
    /\ Target(result.call.kind, result.call.uri) # NullPtr
    /\ InFlight(Target(result.call.kind, result.call.uri)) > 0

\* C16: pure_uri_path returns for every argument, its result is never
\* empty, applying it to its own result gives that result again, and
\* "/" is mapped to "/".
ClaimC16 ==
    /\ norm.pc # "fault"
    /\ norm.calls = 2 => norm.once # <<>>
    /\ norm.pc = "done" => norm.uri = norm.once
    /\ (norm.calls = 2 /\ norm.uri_r = <<"/">>) => norm.once = <<"/">>

\* C17: while the entry registered as x is in the table, every operation
\* called with a y such that pure_uri_path(y) = pure_uri_path(x) meets that
\* entry: check_exist returns true, register returns DuplicatePattern and
\* changes nothing, switch does not return NotFound and touches no other
\* record, update locates x's record, and an update that changes the table
\* changes x's entry and no other.
ClaimC17 ==
    [][\A t \in Threads : \A k \in Kinds : \A x \in PatternArgs(k) : \A y \in PatternArgs(k) :
          (/\ k = call[t].kind
           /\ pure_uri_path(y) = pure_uri_path(x)
           /\ call[t].uri = pure_uri_path(y)
           /\ Target(k, pure_uri_path(x)) # NullPtr)
             => /\ (pc[t] = "body" /\ pc'[t] # "body")
                      => /\ call[t].op = "check_exist" => result'.value = 1
                         /\ call[t].op = "register"
                               => /\ result'.value = RetDuplicate
                                  /\ tables' = tables /\ objs' = objs
                         /\ call[t].op = "switch"
                               => /\ result'.value # RetNotFound
                                  /\ \A o \in DOMAIN objs \ {Target(k, pure_uri_path(x))} :
                                        objs'[o] = objs[o]
                         /\ call[t].op = "update"
                               => \/ /\ pc'[t] = "upd_poll"
                                     /\ p_handler_object'[t] = Target(k, pure_uri_path(x))
                                  \/ /\ pc'[t] = "idle"
                                     /\ result'.path = "built_in"
                                     /\ objs[Target(k, pure_uri_path(x))].built_in_
                /\ (call[t].op = "update" /\ pc[t] = "upd_check" /\ pc'[t] = "idle")
                      => \A i \in DOMAIN Handlers(k) :
                            Handlers(k)[i].first # pure_uri_path(x)
                               => \E j \in DOMAIN Handlers(k)' :
                                     Handlers(k)'[j] = Handlers(k)[i]]_vars

\* thread t is in update's retry loop or at the check after it
Polling(t) == pc[t] \in {"upd_poll", "upd_check"}

\* C18: a thread running a dispatched handler owns rwlock_ in no mode;
\* while an update owns the lock and polls, every dispatched call can take
\* its finishing step and the update can take its own next step, so neither
\* waits for the other; the finishing step leaves the lock as it was and
\* lowers the owner count of the record by one.
TheoremC18 ==
    [][/\ \A t \in Threads :
             pc[t] = "running"
                => ~Holds(t) /\ rwlock_.writer # t /\ t \notin rwlock_.readers
       /\ \A t \in Threads : \A u \in Threads :
             (Polling(t) /\ pc[u] = "running")
                => /\ rwlock_.writer = t
                   /\ ENABLED handler_return(u)
                   /\ ENABLED (do_update_poll(t) \/ do_update_finish(t))
       /\ \A u \in Threads : \A o \in DOMAIN objs :
             (pc[u] = "running" /\ pc'[u] = "idle" /\ phandler_obj[u] = o)
                => /\ rwlock_' = rwlock_
                   /\ use_count(o)' = use_count(o) - 1
                   /\ InFlight(o)' = InFlight(o) - 1]_vars

\* C18 witness: an update owns the lock and has slept at least once in its
\* retry loop, waiting for a record a dispatched call is still running in.
WitnessC18 ==
    \E t \in Threads, u \in Threads :
        /\ pc[t] = "upd_poll" /\ retry_count[t] < RetryBudget
        /\ pc[u] = "running"
        /\ phandler_obj[u] = p_handler_object[t]

\* the calls dispatched to record id that have not finished
Running(id) == {t \in Threads : pc[t] = "running" /\ phandler_obj[t] = id}

\* C19: in every reachable state the live-call count of each record, the
\* owners of its shared_ptr beyond the table's entry and update's local
\* copy, is the number of calls dispatched to it and not finished, each
\* concurrent call counted, and never negative; a thread holds a record
\* exactly while it runs the handler, so the count is one higher from the
\* dispatch on and one lower once the call has finished; the count update
\* reads, use_count() less the two idle owners, is that same number.
TheoremC19 ==
    /\ \A o \in DOMAIN objs :
          /\ InFlight(o) = Cardinality(Running(o))
          /\ InFlight(o) >= 0
          /\ use_count(o) - TableRefs(o)
                - Cardinality({t \in Threads : p_handler_object[t] = o}) = InFlight(o)
          /\ \A t \in Threads :
                (Polling(t) /\ p_handler_object[t] = o)
                   => use_count(o) - UseCountIdle = Cardinality(Running(o))
    /\ \A t \in Threads : (phandler_obj[t] # NullPtr) <=> (pc[t] = "running")

\* C19 witness: two calls are running in the same record at once while the
\* record is in its table.
WitnessC19 ==
    \E o \in DOMAIN objs :
        /\ Cardinality(Running(o)) = 2
        /\ InFlight(o) = 2
        /\ TableRefs(o) = 1

\* C20: from locating its target until it returns, an update owns rwlock_
\* exclusively without a break, and in that window no step raises the
\* target's owner count; an update whose target has no outstanding
\* reference leaves the loop on the first test without sleeping, removes
\* the target's entry, and returns a value other than the one the
\* give-up path returns (Busy).
ClaimC20 ==
    [][\A t \in Threads : \A k \in Kinds : \A o \in DOMAIN objs :
          (Polling(t) /\ call[t].kind = k /\ p_handler_object[t] = o)
             => /\ rwlock_.writer = t /\ rwlock_.readers = {}
                /\ pc'[t] # "idle" => rwlock_' = rwlock_
                /\ InFlight(o)' <= InFlight(o)
                /\ pc'[t] # "idle" => use_count(o)' <= use_count(o)
                /\ (~in_use(o) /\ pc[t] = "upd_poll" /\ pc'[t] # "upd_poll")
                      => pc'[t] = "upd_check" /\ retry_count'[t] = retry_count[t]
                /\ (~in_use(o) /\ pc[t] = "upd_check" /\ pc'[t] # "upd_check")
                      => /\ pc'[t] = "idle"
                         /\ \A j \in DOMAIN Handlers(k)' : Handlers(k)'[j].second # o
                         /\ result'.value # RetUpdateEnd]_vars

====
